---- MODULE Spec2Model ----
(***************************************************************************)
(* Model of the analyze endpoint of TrendXL 2.0 (backend/main.py), of the  *)
(* Redis-backed CacheService it uses for the result cache and for the      *)
(* analysis lock (backend/services/cache_service.py), and of the storing   *)
(* and reading of the cached analysis                                      *)
(* (backend/services/trend_analysis_service.py).                           *)
(*                                                                         *)
(* Several server instances share one Redis keyspace, so every Redis       *)
(* command is one atomic step and the steps of different requests          *)
(* interleave freely.  Time is the remaining life of every key and timer;  *)
(* Advance lets it pass.                                                   *)
(***************************************************************************)
EXTENDS Integers, Sequences, FiniteSets, TLC

\* ---------------------------------------------------------------- bounds
\* the requests served in one behaviour, and the backend and database
\* failures among them
MaxRequests == 2
MaxFaults == 1

\* the requests in flight at one time: a slot serves one request after another
Requests == {1, 2}

\* ------------------------------------------------------ program constants
LockTimeout == 60
SleepSeconds == 2
CacheTrendsTtl == 300
FreeTrialPerDay == 1

\* ------------------------------------------------------------ the inputs
NoUser == "anonymous"
Users == {"admin", "subscriber", "trial"}
\* the callers with unlimited access
PaidUsers == {"admin", "subscriber"}
Handles == {"creator"}

\* UserProfile.is_admin of the authenticated user
IsAdmin(u) == u = "admin"

\* the stripe_subscription_status of the user is 'active' or 'trialing'
check_active_subscription(u) == u = "subscriber"

\* which of the words the error handler looks for occur in str(e)
Keywords == {"not found", "rate limit", "too many requests",
             "authentication", "api key"}
PipelineErrors == {{}, {"not found"}}

GetFaults == {"none", "backend", "decode"}
SetFaults == {"none", "backend", "refused"}
ClearPatterns == {"*", "analysis:*"}

\* --------------------------------------------------------------- values
Nil == [nil |-> TRUE]
LockValue == [lock |-> "1"]
NoExc == [status |-> -1, words |-> {}]
NoResponse == [status |-> 0, body |-> Nil]

VARIABLES
  enabled,     \* CacheService.enabled, fixed by __init__
  redis,       \* the keyspace: key -> [ttl, val]; ttl = 0 is an absent key
  trialUsed,   \* today's recorded free-trial analyses of each user
  pc,          \* the position of each request in analyze_trends
  rq,          \* the locals of each request
  sleep,       \* what remains of the request's asyncio.sleep
  response,    \* what the request answered
  owner,       \* history: the request whose SET NX created the lock key
  log,         \* history: what each request did
  overlap,     \* history: pairs of requests that were in flight together
  fresh,       \* history: requests that returned a computed result, no time having passed since
  faults,      \* the backend and database failures so far
  started      \* the requests that have arrived so far

vars == <<enabled, redis, trialUsed, pc, rq, sleep, response,
          owner, log, overlap, fresh, faults, started>>

\* One run of the stages of TrendAnalysisService.analyze_profile_trends that
\* follow the hashtag extraction (steps 4 to 6), and one call of
\* analyze_profile_trends up to the hashtag extraction (steps 1 to 3)
VARIABLES
  stage,       \* the position of the run in steps 4 to 6
  hashtags,    \* the hashtags of the _search_trending_videos_optimized call
  idx,         \* the loop index i of that call, counted from 1
  allTrends,   \* all_trends of that call
  trends,      \* trends, the candidates after the search stage
  ranked,      \* engagement_sorted_trends
  niche,       \* niche_trends after analyze_trends_relevance
  combined,    \* combined_trends
  visited,     \* history: the (call, loop index) pairs that were entered
  raisedAt,    \* history: the (call, loop index) pairs whose iteration raised
  sinceCall,   \* history: seconds slept since the last vendor call, -1 before any
  hasty,       \* history: why a vendor call followed another without the delay
  an,          \* the call of analyze_profile_trends up to the hashtag extraction
  vc,          \* one call of EnsembleService.search_hashtag_posts
  rt           \* one call of utils.retry_with_backoff

stageVars == <<stage, hashtags, idx, allTrends, trends, ranked, niche, combined,
               visited, raisedAt, sinceCall, hasty>>

\* no run of the stages is under way
StagesParked ==
  /\ stage = "off"
  /\ hashtags = <<>>
  /\ idx = 0
  /\ allTrends = <<>>
  /\ trends = <<>>
  /\ ranked = <<>>
  /\ niche = <<>>
  /\ combined = <<>>
  /\ visited = {}
  /\ raisedAt = {}
  /\ sinceCall = -1
  /\ hasty = {}

\* no call of analyze_profile_trends is being followed
AnalyzeParked == an = [step |-> "off"]

\* no call of search_hashtag_posts is being followed
VendorParked == vc = [step |-> "off"]

\* no call of retry_with_backoff is being followed
RetryParked == rt = [step |-> "off"]

\* what the requests of analyze_trends leave alone
aside == <<stageVars, an, vc, rt>>

\* ----------------------------------------------------------------- keys
\* lock_name = f"analysis:{current_user.id}:{username}"
LockName(u, h) == <<u, h>>
LockNames == Users \X Handles

\* lock_key = f"trendxl:v2:lock:{lock_name}"
LockKey(n) == [ns |-> "lock", id |-> n]

\* _get_key("analysis", username) = f"trendxl:v2:analysis:{username}"
CacheKey(h) == [ns |-> "analysis", id |-> h]

Keys == {LockKey(n) : n \in LockNames} \cup {CacheKey(h) : h \in Handles}

Absent == [ttl |-> 0, val |-> Nil]

\* ------------------------------------------------------- redis commands
Live(store, k) == store[k].ttl > 0

\* GET key
RedisGet(store, k) == IF Live(store, k) THEN store[k].val ELSE Nil

\* SET key value NX EX seconds: the reply and the keyspace after it
RedisSetNxEx(store, k, v, ex) ==
  IF Live(store, k)
    THEN [reply |-> FALSE, store |-> store]
    ELSE [reply |-> TRUE, store |-> [store EXCEPT ![k] = [ttl |-> ex, val |-> v]]]

\* SETEX key seconds value
RedisSetEx(store, k, ex, v) == [store EXCEPT ![k] = [ttl |-> ex, val |-> v]]

\* DEL key...: the number of keys removed and the keyspace after it
RedisDelete(store, ks) ==
  [reply |-> Cardinality({k \in ks : Live(store, k)}),
   store |-> [k \in Keys |-> IF k \in ks THEN Absent ELSE store[k]]]

\* does a key match the glob f"trendxl:v2:{pattern}"
Matches(pattern, k) ==
  IF pattern = "*" THEN TRUE
  ELSE IF pattern = "analysis:*" THEN k.ns = "analysis"
  ELSE FALSE

\* KEYS pattern
RedisKeys(store, pattern) == {k \in Keys : Live(store, k) /\ Matches(pattern, k)}

\* --------------------------------------------------------- CacheService
\* Every method answers [raised, ret, store]: whether an exception left the
\* method, what it returned, and the keyspace after the call.

\* CacheService.get, on the key of an analysis
CacheGetUnguarded(en, store, h, fault) ==
  IF ~en THEN [raised |-> FALSE, ret |-> Nil, store |-> store]
  ELSE IF fault = "backend" THEN [raised |-> TRUE, ret |-> Nil, store |-> store]
  ELSE IF RedisGet(store, CacheKey(h)) # Nil
    THEN IF fault = "decode"
           THEN [raised |-> TRUE, ret |-> Nil, store |-> store]
           ELSE [raised |-> FALSE, ret |-> RedisGet(store, CacheKey(h)), store |-> store]
    ELSE [raised |-> FALSE, ret |-> Nil, store |-> store]

CacheGet(en, store, h, fault) ==
  IF ~en THEN [raised |-> FALSE, ret |-> Nil, store |-> store]
  ELSE IF fault = "backend" THEN [raised |-> FALSE, ret |-> Nil, store |-> store]
  ELSE IF RedisGet(store, CacheKey(h)) # Nil
    THEN IF fault = "decode"
           THEN [raised |-> FALSE, ret |-> Nil, store |-> store]
           ELSE [raised |-> FALSE, ret |-> RedisGet(store, CacheKey(h)), store |-> store]
    ELSE [raised |-> FALSE, ret |-> Nil, store |-> store]

\* CacheService.set, on the key of an analysis
CacheSet(en, store, h, data, ttl, fault) ==
  IF ~en THEN [raised |-> FALSE, ret |-> FALSE, store |-> store]
  ELSE IF fault = "backend" THEN [raised |-> FALSE, ret |-> FALSE, store |-> store]
  ELSE IF fault = "refused" THEN [raised |-> FALSE, ret |-> FALSE, store |-> store]
  ELSE [raised |-> FALSE, ret |-> TRUE,
        store |-> RedisSetEx(store, CacheKey(h), ttl, data)]

\* CacheService.clear_pattern
CacheClearPattern(en, store, pattern, fault) ==
  IF ~en THEN [raised |-> FALSE, ret |-> 0, store |-> store]
  ELSE IF fault THEN [raised |-> FALSE, ret |-> 0, store |-> store]
  ELSE IF RedisKeys(store, pattern) # {}
    THEN [raised |-> FALSE,
          ret |-> RedisDelete(store, RedisKeys(store, pattern)).reply,
          store |-> RedisDelete(store, RedisKeys(store, pattern)).store]
    ELSE [raised |-> FALSE, ret |-> 0, store |-> store]

\* CacheService.acquire_lock
acquire_lock_no_nx(en, store, n, timeout, fault) ==
  IF ~en THEN [raised |-> FALSE, ret |-> TRUE, store |-> store]
  ELSE IF fault THEN [raised |-> FALSE, ret |-> TRUE, store |-> store]
  ELSE [raised |-> FALSE, ret |-> TRUE,
        store |-> RedisSetEx(store, LockKey(n), timeout, LockValue)]

acquire_lock_fail_closed(en, store, n, timeout, fault) ==
  IF ~en THEN [raised |-> FALSE, ret |-> FALSE, store |-> store]
  ELSE IF fault THEN [raised |-> FALSE, ret |-> FALSE, store |-> store]
  ELSE [raised |-> FALSE,
        ret |-> RedisSetNxEx(store, LockKey(n), LockValue, timeout).reply,
        store |-> RedisSetNxEx(store, LockKey(n), LockValue, timeout).store]

acquire_lock(en, store, n, timeout, fault) ==
  IF ~en THEN [raised |-> FALSE, ret |-> TRUE, store |-> store]
  ELSE IF fault THEN [raised |-> FALSE, ret |-> TRUE, store |-> store]
  ELSE [raised |-> FALSE,
        ret |-> RedisSetNxEx(store, LockKey(n), LockValue, timeout).reply,
        store |-> RedisSetNxEx(store, LockKey(n), LockValue, timeout).store]

\* a release that removes the analysis of the handle with the lock key
release_lock_and_analysis(en, store, n, fault) ==
  IF ~en THEN [raised |-> FALSE, ret |-> TRUE, store |-> store]
  ELSE IF fault THEN [raised |-> FALSE, ret |-> FALSE, store |-> store]
  ELSE [raised |-> FALSE,
        ret |-> RedisDelete(store, {LockKey(n)}).reply > 0,
        store |-> RedisDelete(store, {LockKey(n), CacheKey(n[2])}).store]

\* CacheService.release_lock
release_lock(en, store, n, fault) ==
  IF ~en THEN [raised |-> FALSE, ret |-> TRUE, store |-> store]
  ELSE IF fault THEN [raised |-> FALSE, ret |-> FALSE, store |-> store]
  ELSE [raised |-> FALSE,
        ret |-> RedisDelete(store, {LockKey(n)}).reply > 0,
        store |-> RedisDelete(store, {LockKey(n)}).store]

\* ------------------------------------------------- the analysis result
\* the TrendAnalysisResponse analyze_profile_trends returns: the analysis
\* of handle h computed by the run of request r; token_usage is not set
TrendAnalysisResponse(h, r) ==
  [handle |-> h, run |-> r, analysis_summary |-> "summary", token_usage |-> Nil]

\* analysis_data, the dict _cache_analysis_result stores
AnalysisDataNoSummary(res) == [handle |-> res.handle, run |-> res.run]

AnalysisData(res) ==
  [handle |-> res.handle, run |-> res.run, analysis_summary |-> res.analysis_summary]

\* the TrendAnalysisResponse get_cached_analysis builds from the stored dict;
\* cached_data.get("analysis_summary", "") and the default of token_usage
FromCachedData(data) ==
  [handle |-> data.handle, run |-> data.run,
   analysis_summary |-> IF "analysis_summary" \in DOMAIN data
                          THEN data.analysis_summary ELSE "",
   token_usage |-> Nil]

\* TrendAnalysisService.get_cached_analysis
get_cached_analysis(en, store, h, fault) ==
  LET g == CacheGet(en, store, h, fault)
  IN  IF g.raised THEN Nil
      ELSE IF g.ret = Nil THEN Nil
      ELSE FromCachedData(g.ret)

\* TrendAnalysisService._cache_analysis_result: the keyspace after it
cache_analysis_result(en, store, h, res, fault) ==
  CacheSet(en, store, h, AnalysisData(res), CacheTrendsTtl, fault).store

\* ------------------------------------------------ the exception handler
\* the status the `except Exception` block of analyze_trends answers with
ErrorStatus(words) ==
  IF "not found" \in words THEN 404
  ELSE IF "rate limit" \in words \/ "too many requests" \in words THEN 429
  ELSE IF "authentication" \in words \/ "api key" \in words THEN 503
  ELSE 500

\* the HTTPExceptions analyze_trends raises, with the words of their str().
\* str() of an HTTPException is empty or "<status>: <detail>", by the version
\* of the framework; the detail of the 401 has the word "Authentication"
Str401 == {{}, {"authentication"}}
Http401(words) == [status |-> 401, words |-> words]
Http403 == [status |-> 403, words |-> {}]
Http409 == [status |-> 409, words |-> {}]
Http500 == [status |-> 500, words |-> {}]

\* ------------------------------------------------------------- the state
NoLocals == [id |-> 0, user |-> NoUser, handle |-> "creator", free |-> FALSE,
             exc |-> NoExc, result |-> Nil]

NoLog == [ran |-> FALSE, acq |-> "none", released |-> "none", rereads |-> 0,
          raised |-> 0, look |-> "none", foreign |-> FALSE, recent |-> {}]

Active(r) == pc[r] \notin {"idle", "done"}

\* a request that was answered True by acquire_lock without a key being set
\* holds the name until it calls release_lock
Degraded(r) == log[r].acq \in {"disabled", "error"} /\ pc[r] \in {"running", "release"}

\* the name is held: acquired, and neither released nor expired
Held(n) ==
  \/ owner[n] # 0
  \/ \E r \in Requests : Degraded(r) /\ LockName(rq[r].user, rq[r].handle) = n

\* no request of analyze_trends has arrived
RequestsParked ==
  /\ redis = [k \in Keys |-> Absent]
  /\ trialUsed = [u \in Users |-> 0]
  /\ pc = [r \in Requests |-> "idle"]
  /\ rq = [r \in Requests |-> NoLocals]
  /\ sleep = [r \in Requests |-> 0]
  /\ response = [r \in Requests |-> NoResponse]
  /\ owner = [n \in LockNames |-> 0]
  /\ log = [r \in Requests |-> NoLog]
  /\ overlap = {}
  /\ fresh = {}
  /\ faults = 0
  /\ started = 0

Init ==
  /\ enabled \in BOOLEAN
  /\ RequestsParked
  /\ StagesParked
  /\ AnalyzeParked
  /\ VendorParked
  /\ RetryParked

\* the request leaves analyze_trends through its except block
Fail(r, exc) ==
  /\ pc' = [pc EXCEPT ![r] = "done"]
  /\ response' = [response EXCEPT ![r] = [status |-> ErrorStatus(exc.words), body |-> Nil]]

\* ------------------------------------------------------- the free trial
\* supabase_client.can_use_free_trial: the database function answers whether
\* the user has recorded fewer than one analysis today; when the call fails
\* the trial is allowed
can_use_free_trial(u, used, fault) ==
  IF fault THEN TRUE ELSE used[u] < FreeTrialPerDay

\* supabase_client.check_user_can_analyze: the reason it returns
check_user_can_analyze(u, used, fault) ==
  IF check_active_subscription(u) THEN "active_subscription"
  ELSE IF can_use_free_trial(u, used, fault) THEN "free_trial"
  ELSE "no_access"

\* ---------------------------------------------------- analyze_trends
\* a failure of the database is drawn from the budget
Charge(failed) ==
  /\ failed => faults < MaxFaults
  /\ faults' = IF failed THEN faults + 1 ELSE faults

\* so is a failure of a Redis call, which only a call that is made can meet
ChargeRedis(failed) ==
  /\ failed => enabled
  /\ Charge(failed)

\* json.loads can only fail on a value that was found
ChargeGet(fault, h) ==
  /\ fault = "decode" => Live(redis, CacheKey(h))
  /\ ChargeRedis(fault # "none")

\* the request arrives: authentication and the admin bypass.  The slots are
\* interchangeable, so an arriving request takes the lowest free one.
AnalyzeStart(r, u, h) ==
  /\ pc[r] = "idle"
  /\ \A o \in Requests : o < r => pc[o] # "idle"
  /\ started < MaxRequests
  /\ started' = started + 1
  /\ rq' = [rq EXCEPT ![r].id = started + 1, ![r].user = u, ![r].handle = h]
  /\ overlap' = overlap \cup {{r, o} : o \in {x \in Requests : Active(x)}}
  /\ IF u = NoUser
       THEN /\ \E words \in Str401 : Fail(r, Http401(words))
            /\ log' = [log EXCEPT ![r].raised = 401]
       ELSE /\ pc' = [pc EXCEPT ![r] = IF IsAdmin(u) THEN "cache" ELSE "check"]
            /\ log' = [log EXCEPT ![r].recent =
                         {o \in Requests : /\ pc[o] = "done"
                                           /\ log[o].ran
                                           /\ response[o].status = 200
                                           /\ rq[o].handle = h
                                           /\ o \in fresh}]
            /\ UNCHANGED response
  /\ UNCHANGED <<aside, enabled, redis, trialUsed, sleep, owner, fresh, faults>>

\* can_analyze, reason, details = await check_user_can_analyze(current_user.id)
CheckUserCanAnalyze(r, fault) ==
  /\ pc[r] = "check"
  /\ LET reason == check_user_can_analyze(rq[r].user, trialUsed, fault)
     IN  IF reason = "no_access"
           THEN /\ Fail(r, Http403)
                /\ log' = [log EXCEPT ![r].raised = 403]
                /\ UNCHANGED rq
           ELSE /\ pc' = [pc EXCEPT ![r] = IF reason = "free_trial" THEN "record" ELSE "cache"]
                /\ rq' = [rq EXCEPT ![r].free = (reason = "free_trial")]
                /\ UNCHANGED <<response, log>>
  /\ Charge(fault)
  /\ UNCHANGED <<aside, enabled, redis, trialUsed, sleep, owner, overlap, fresh, started>>

\* success = await record_free_trial_usage(current_user.id, username)
RecordFreeTrialUsage(r, fault) ==
  /\ pc[r] = "record"
  /\ IF fault
       THEN /\ Fail(r, Http500)
            /\ log' = [log EXCEPT ![r].raised = 500]
            /\ UNCHANGED trialUsed
       ELSE /\ trialUsed' = [trialUsed EXCEPT ![rq[r].user] = @ + 1]
            /\ pc' = [pc EXCEPT ![r] = "cache"]
            /\ UNCHANGED <<response, log>>
  /\ Charge(fault)
  /\ UNCHANGED <<aside, enabled, redis, rq, sleep, owner, overlap, fresh, started>>

\* history: how a look at the cache ended
Looked(cached, fault) ==
  IF cached # Nil THEN "hit" ELSE IF fault # "none" THEN "failed" ELSE "miss"

\* cached_result = await trend_service.get_cached_analysis(username)
CheckCache(r, fault) ==
  /\ pc[r] = "cache"
  /\ LET cached == get_cached_analysis(enabled, redis, rq[r].handle, fault)
     IN  /\ log' = [log EXCEPT ![r].look = Looked(cached, fault)]
         /\ IF cached # Nil
              THEN /\ response' = [response EXCEPT ![r] = [status |-> 200, body |-> cached]]
                   /\ pc' = [pc EXCEPT ![r] = "done"]
              ELSE /\ pc' = [pc EXCEPT ![r] = "acquire"]
                   /\ UNCHANGED response
  /\ ChargeGet(fault, rq[r].handle)
  /\ UNCHANGED <<aside, enabled, redis, trialUsed, rq, sleep, owner, overlap, fresh, started>>

\* `if not lock_acquired:` sends the request to the wait, otherwise the
\* pipeline starts
AfterAcquireAlwaysRuns(acquired) == "running"

AfterAcquire(acquired) == IF acquired THEN "running" ELSE "wait"

\* the try/finally around analyze_profile_trends: release_lock is next
\* whether the pipeline returned or raised
AfterPipelineNoFinally(raised) == IF raised THEN "except" ELSE "release"

AfterPipeline(raised) == "release"

\* lock_acquired = await cache_service.acquire_lock(lock_name, timeout=60)
AcquireLock(r, fault) ==
  /\ pc[r] = "acquire"
  /\ LET n == LockName(rq[r].user, rq[r].handle)
         a == acquire_lock(enabled, redis, n, LockTimeout, fault)
         how == IF ~enabled THEN "disabled"
                ELSE IF fault THEN "error"
                ELSE IF a.ret THEN "key" ELSE "busy"
     IN  /\ redis' = a.store
         /\ owner' = IF how = "key" THEN [owner EXCEPT ![n] = rq[r].id] ELSE owner
         /\ log' = [log EXCEPT ![r].acq = how,
                               ![r].ran = (AfterAcquire(a.ret) = "running")]
         /\ pc' = [pc EXCEPT ![r] = AfterAcquire(a.ret)]
         /\ sleep' = IF AfterAcquire(a.ret) = "wait"
                      THEN [sleep EXCEPT ![r] = SleepSeconds]
                      ELSE sleep
  /\ ChargeRedis(fault)
  /\ UNCHANGED <<aside, enabled, trialUsed, rq, response, overlap, fresh, started>>

\* after asyncio.sleep(2): the second look at the cache, then 409
WaitRecheck(r, fault) ==
  /\ pc[r] = "wait"
  /\ sleep[r] = 0
  /\ LET cached == get_cached_analysis(enabled, redis, rq[r].handle, fault)
     IN  IF cached # Nil
           THEN /\ response' = [response EXCEPT ![r] = [status |-> 200, body |-> cached]]
                /\ pc' = [pc EXCEPT ![r] = "done"]
                /\ log' = [log EXCEPT ![r].rereads = @ + 1, ![r].look = Looked(cached, fault)]
           ELSE /\ Fail(r, Http409)
                /\ log' = [log EXCEPT ![r].rereads = @ + 1, ![r].raised = 409,
                                      ![r].look = Looked(cached, fault)]
  /\ ChargeGet(fault, rq[r].handle)
  /\ UNCHANGED <<aside, enabled, redis, trialUsed, rq, sleep, owner, overlap, fresh, started>>

\* some other request holds a lock for the handle
OtherHolder(r, h) ==
  \E o \in Requests \ {r} :
     /\ Active(o)
     /\ rq[o].handle = h
     /\ \/ \E u \in Users : owner[LockName(u, h)] = rq[o].id
        \/ Degraded(o)

\* analyze_profile_trends raises: "Analysis failed for @{username}: ..."
PipelineRaises(r, words) ==
  /\ pc[r] = "running"
  /\ LET exc == [status |-> 0, words |-> words]
     IN  IF AfterPipeline(TRUE) = "release"
           THEN /\ pc' = [pc EXCEPT ![r] = "release"]
                /\ rq' = [rq EXCEPT ![r].exc = exc]
                /\ UNCHANGED response
           ELSE /\ Fail(r, exc)
                /\ UNCHANGED rq
  /\ UNCHANGED <<aside, enabled, redis, trialUsed, sleep, owner, log, overlap, fresh, faults, started>>

\* analyze_profile_trends stores its result (_cache_analysis_result) and
\* returns it
PipelineReturns(r, fault) ==
  /\ pc[r] = "running"
  /\ LET h == rq[r].handle
         res == TrendAnalysisResponse(h, rq[r].id)
         st == CacheSet(enabled, redis, h, AnalysisData(res), CacheTrendsTtl, fault)
     IN  /\ redis' = cache_analysis_result(enabled, redis, h, res, fault)
         /\ rq' = [rq EXCEPT ![r].result = res]
         /\ log' = [log EXCEPT ![r].foreign = st.ret /\ OtherHolder(r, h)]
         /\ pc' = [pc EXCEPT ![r] = AfterPipeline(FALSE)]
  /\ ChargeRedis(fault # "none")
  /\ UNCHANGED <<aside, enabled, trialUsed, sleep, response, owner, overlap, fresh, started>>

\* finally: await cache_service.release_lock(lock_name); then the exception
\* of the pipeline reaches the except block, or the result is returned
\* (result.token_usage is None, so no token usage is recorded)
ReleaseLock(r, fault) ==
  /\ pc[r] = "release"
  /\ LET n == LockName(rq[r].user, rq[r].handle)
         rel == release_lock(enabled, redis, n, fault)
     IN  /\ redis' = rel.store
         /\ owner' = IF Live(rel.store, LockKey(n)) THEN owner ELSE [owner EXCEPT ![n] = 0]
         /\ log' = [log EXCEPT ![r].released = IF rel.ret THEN "true" ELSE "false"]
  /\ IF rq[r].exc # NoExc
       THEN Fail(r, rq[r].exc)
       ELSE /\ response' = [response EXCEPT ![r] = [status |-> 200, body |-> rq[r].result]]
            /\ pc' = [pc EXCEPT ![r] = "done"]
  /\ fresh' = IF rq[r].exc = NoExc THEN fresh \cup {r} ELSE fresh
  /\ ChargeRedis(fault)
  /\ UNCHANGED <<aside, enabled, trialUsed, rq, sleep, overlap, started>>

\* POST /api/v1/cache/clear: cache_service.clear_pattern(pattern)
ClearCache(pattern, fault) ==
  /\ ChargeRedis(fault)
  /\ LET c == CacheClearPattern(enabled, redis, pattern, fault)
     IN  /\ redis' = c.store
         /\ owner' = [n \in LockNames |-> IF Live(c.store, LockKey(n)) THEN owner[n] ELSE 0]
  /\ UNCHANGED <<aside, enabled, trialUsed, pc, rq, sleep, response, log, overlap, fresh, started>>

\* d seconds pass: keys and timers run down, expired keys vanish
Minus(x, d) == IF x > d THEN x - d ELSE 0

Expire(store, d) ==
  [k \in Keys |-> IF store[k].ttl > d
                    THEN [store[k] EXCEPT !.ttl = @ - d]
                    ELSE Absent]

\* the request is over: its locals are gone and the slot serves the next one
Retire(r) ==
  /\ pc[r] = "done"
  /\ pc' = [pc EXCEPT ![r] = "idle"]
  /\ rq' = [rq EXCEPT ![r] = NoLocals]
  /\ response' = [response EXCEPT ![r] = NoResponse]
  /\ log' = [o \in Requests |-> IF o = r THEN NoLog ELSE [log[o] EXCEPT !.recent = @ \ {r}]]
  /\ overlap' = {p \in overlap : r \notin p}
  /\ fresh' = fresh \ {r}
  /\ UNCHANGED <<aside, enabled, redis, trialUsed, sleep, owner, faults, started>>

\* the running timers: the lives of the keys and the sleeps
Timers == {redis[k].ttl : k \in Keys} \cup {sleep[r] : r \in Requests}

\* time passes until the next key expires or the next sleep ends
Advance ==
  /\ \E t \in Timers : t > 0
  /\ LET d == CHOOSE m \in Timers \ {0} : \A t \in Timers \ {0} : m <= t
     IN  /\ redis' = Expire(redis, d)
         /\ owner' = [n \in LockNames |-> IF Live(Expire(redis, d), LockKey(n)) THEN owner[n] ELSE 0]
         /\ sleep' = [r \in Requests |-> Minus(sleep[r], d)]
  /\ fresh' = {}
  /\ UNCHANGED <<aside, enabled, trialUsed, pc, rq, response, log, overlap, faults, started>>

Next ==
  \/ \E r \in Requests, u \in PaidUsers \cup {NoUser}, h \in Handles : AnalyzeStart(r, u, h)
  \/ \E r \in Requests : CheckUserCanAnalyze(r, FALSE)
  \/ \E r \in Requests, fault \in GetFaults : CheckCache(r, fault)
  \/ \E r \in Requests, fault \in BOOLEAN : AcquireLock(r, fault)
  \/ \E r \in Requests, fault \in GetFaults : WaitRecheck(r, fault)
  \/ \E r \in Requests, words \in PipelineErrors : PipelineRaises(r, words)
  \/ \E r \in Requests, fault \in SetFaults : PipelineReturns(r, fault)
  \/ \E r \in Requests, fault \in BOOLEAN : ReleaseLock(r, fault)
  \/ \E pattern \in ClearPatterns, fault \in BOOLEAN : ClearCache(pattern, fault)
  \/ \E r \in Requests : Retire(r)
  \/ Advance

Spec == Init /\ [][Next]_vars

\* ------------------------------------------------------------ sanity
TypeOK ==
  /\ enabled \in BOOLEAN
  /\ \A k \in Keys : redis[k].ttl \in 0..CacheTrendsTtl
  /\ \A n \in LockNames : owner[n] # 0 <=> Live(redis, LockKey(n))
  /\ \A r \in Requests : sleep[r] \in 0..SleepSeconds
  /\ \A r \in Requests : pc[r] \in {"idle", "check", "record", "cache", "acquire",
                                    "wait", "running", "release", "done"}

\* ---------------------------------------------------------- the claims
Name(r) == LockName(rq[r].user, rq[r].handle)

\* the backend is up: the cache is enabled and no call has failed
BackendUp == enabled /\ faults = 0

\* the request called analyze_profile_trends
Ran(r) == log[r].ran

\* C1: of two analyze requests for the same handle that were in flight
\* together, at most one runs the pipeline (stated for a backend that is up;
\* the claim makes no such exception).
C1_OnePipelinePerHandle ==
  BackendUp =>
    \A r1, r2 \in Requests :
      (r1 # r2 /\ {r1, r2} \in overlap /\ rq[r1].handle = rq[r2].handle)
        => ~(Ran(r1) /\ Ran(r2))

\* C2: at no time are two analyze_profile_trends computations in flight for
\* the same (user, profile) pair (stated for a backend that is up; the claim
\* makes no such exception).
C2_OneInFlightPerUserAndProfile ==
  BackendUp =>
    \A r1, r2 \in Requests :
      (r1 # r2 /\ rq[r1].user = rq[r2].user /\ rq[r1].handle = rq[r2].handle)
        => ~(pc[r1] = "running" /\ pc[r2] = "running")

\* C3 as claimed: while a lock name is held, every further acquire_lock on
\* that name returns False, whatever the backend does.
C3_HeldLockRefusesEveryAcquire ==
  \A r \in Requests :
    (pc[r] = "acquire" /\ Held(Name(r)))
      => \A fault \in BOOLEAN :
           (fault => enabled /\ faults < MaxFaults)
             => ~acquire_lock(enabled, redis, Name(r), LockTimeout, fault).ret

\* C3, amended: while the lock key is present and the call reaches Redis
\* without an exception, acquire_lock on the name returns False, and of two
\* such acquirers of a free name exactly the first gets True; a refusal is
\* only ever given by an enabled backend; after release_lock returns True
\* the next acquire_lock on the name returns True.
C3_LockRefusedWhileKeyPresent ==
  /\ \A r \in Requests :
       (pc[r] = "acquire" /\ enabled)
         => LET a1 == acquire_lock(enabled, redis, Name(r), LockTimeout, FALSE)
                a2 == acquire_lock(enabled, a1.store, Name(r), LockTimeout, FALSE)
            IN  /\ Live(redis, LockKey(Name(r))) => ~a1.ret
                /\ ~Live(redis, LockKey(Name(r))) => a1.ret
                /\ ~a2.ret
  /\ \A r \in Requests : log[r].acq = "busy" => enabled
  /\ \A r \in Requests :
       pc[r] = "release"
         => \A f1, f2 \in BOOLEAN :
              LET rel == release_lock(enabled, redis, Name(r), f1)
              IN  rel.ret => acquire_lock(enabled, rel.store, Name(r), LockTimeout, f2).ret

\* a request was refused the name another request holds by its key
C3_Witness ==
  \E r1, r2 \in Requests :
    /\ r1 # r2 /\ Name(r1) = Name(r2)
    /\ log[r1].acq = "key" /\ pc[r1] = "running" /\ owner[Name(r1)] = rq[r1].id
    /\ log[r2].acq = "busy"

\* the request was answered True by acquire_lock
Acquired(r) == log[r].acq \in {"key", "disabled", "error"}

\* C4: a request that acquired the analysis lock has called release_lock by
\* the time it ends, whether the pipeline returned or raised.
C4_AcquirerAlwaysReleases ==
  \A r \in Requests :
    Acquired(r) => /\ pc[r] \in {"running", "release", "done"}
                   /\ pc[r] = "done" => log[r].released # "none"

\* the pipeline of a lock holder raised and the lock was released
C4_Witness ==
  \E r \in Requests :
    /\ pc[r] = "done" /\ log[r].acq = "key"
    /\ rq[r].exc # NoExc /\ response[r].status = 404
    /\ log[r].released = "true"

\* C5: a request whose acquire_lock returned False never runs the pipeline:
\* it sleeps the full two seconds, looks at the cache once more, and returns
\* what it finds there or raises the 409.
C5_RefusedRequestNeverRuns ==
  \A r \in Requests :
    log[r].acq = "busy"
      => /\ ~Ran(r)
         /\ pc[r] \in {"wait", "done"}
         /\ pc[r] = "wait" => log[r].rereads = 0
         /\ pc[r] = "done"
              => /\ sleep[r] = 0
                 /\ log[r].rereads = 1
                 /\ \/ /\ log[r].look = "hit"
                       /\ response[r].status = 200 /\ response[r].body # Nil
                       /\ log[r].raised = 0
                    \/ /\ log[r].look # "hit"
                       /\ log[r].raised = 409

\* a refused request returned the result the holder had stored meanwhile
C5_Witness ==
  \E r, o \in Requests :
    /\ log[r].acq = "busy" /\ pc[r] = "done" /\ log[r].look = "hit"
    /\ Ran(o) /\ response[r].body.run = rq[o].id

\* C6: the request that raised the 409 is answered with status 409.
C6_BusyAnsweredWith409 ==
  \A r \in Requests : log[r].raised = 409 => response[r].status = 409

\* C7: when the cache is disabled or the Redis call of acquire_lock raises,
\* the request is let through: it runs the pipeline and never gets the
\* busy answer.
C7_LockDegradesToAllow ==
  \A r \in Requests :
    log[r].acq \in {"disabled", "error"}
      => /\ Ran(r)
         /\ pc[r] \in {"running", "release", "done"}
         /\ log[r].rereads = 0
         /\ log[r].raised # 409

\* the Redis call failed while another request held the name, and both run
C7_Witness ==
  \E r1, r2 \in Requests :
    /\ r1 # r2 /\ Name(r1) = Name(r2)
    /\ log[r1].acq = "key" /\ pc[r1] = "running"
    /\ log[r2].acq = "error" /\ pc[r2] = "running"

\* C8: no request stores an analysis for a handle while another request
\* holds a lock for that handle (stated for a backend that is up).
C8_HolderIsSoleWriter ==
  BackendUp => \A r \in Requests : ~log[r].foreign

\* the keyspace with no key in it
EmptyStore == [k \in Keys |-> Absent]

\* C9: CacheService.get never raises and answers None when the cache is
\* disabled, the key is absent or expired, or the Redis call or the JSON
\* decoding fails; set never raises and answers False, storing nothing, in
\* the failing cases; a lookup in a failing cache answers what a lookup in
\* an empty cache answers, and the request whose first lookup failed goes on
\* to the lock and the pipeline as after a miss.
C9_CacheNeverRaises ==
  /\ \A h \in Handles, f \in GetFaults :
       LET g == CacheGet(enabled, redis, h, f)
       IN  /\ ~g.raised
           /\ g.store = redis
           /\ (~enabled \/ f # "none" \/ ~Live(redis, CacheKey(h))) => g.ret = Nil
           /\ f # "none" =>
                get_cached_analysis(enabled, redis, h, f)
                  = get_cached_analysis(enabled, EmptyStore, h, "none")
  /\ \A h \in Handles, f \in SetFaults :
       LET s == CacheSet(enabled, redis, h, AnalysisData(TrendAnalysisResponse(h, 1)),
                         CacheTrendsTtl, f)
       IN  /\ ~s.raised
           /\ (~enabled \/ f # "none") => (~s.ret /\ s.store = redis)
  /\ \A r \in Requests :
       (log[r].look = "failed" /\ log[r].rereads = 0)
         => /\ pc[r] \in {"acquire", "wait", "running", "release", "done"}
            /\ log[r].raised \in {0, 409}
            /\ pc[r] = "done" => (Ran(r) \/ log[r].acq = "busy")

\* the first lookup of a request failed in the backend, and the request ran
\* the pipeline and was answered with its result
C9_Witness ==
  \E r \in Requests :
    /\ log[r].look = "failed" /\ log[r].rereads = 0
    /\ Ran(r) /\ pc[r] = "done"
    /\ response[r].status = 200 /\ response[r].body = rq[r].result

MaxHashtags == 3

\* ------------------------------------------------------ program constants
VideosPerHashtag == 8
TargetVideoCount == 10
SearchPeriodDays == 30
MaxSearchCount == 20
FreshnessDays == 14
MinViews == 10000
MinLikes == 200
RelaxedViews == 5000
RelaxedLikes == 50
RankedMax == 30
NicheMax == 10
CombinedMax == 20
MaxImages == 20
RequestDelay == 3
PopularScore == 50
DefaultScore == 30

\* backup_hashtags
BackupHashtags == <<"fyp", "viral", "trending", "foryou", "tiktok",
                    "dance", "comedy", "music", "lifestyle">>

\* ------------------------------------------------------------ sequences
Min(a, b) == IF a < b THEN a ELSE b
Max(a, b) == IF a > b THEN a ELSE b

\* s[:n]
Take(s, n) == SubSeq(s, 1, Min(n, Len(s)))

\* the ids of a list of posts or trends
Ids(s) == [i \in 1..Len(s) |-> s[i].id]

\* len({t.id for t in s}) == len(s)
DistinctIds(s) == \A i, j \in 1..Len(s) : s[i].id = s[j].id => i = j

\* ----------------------------------------------------- the vendor's videos
\* What the vendor holds: the post object of every video id, with its
\* counters, its create_time (a Unix time so many days back, or something
\* that is no timestamp) and what the relevance analysis meets for it.

VideoIds == 1..16

RawPost(id) ==
  LET strong == [views |-> 20000 + 1000 * id, likes |-> 1000, comments |-> 100,
                 shares |-> 50]
      mid    == [views |-> 6000, likes |-> 100, comments |-> 0, shares |-> 0]
      weak   == [views |-> 100, likes |-> 5, comments |-> 0, shares |-> 0]
      dud    == [views |-> 5, likes |-> 0, comments |-> 0, shares |-> 0]
      hit    == [views |-> 600000, likes |-> 60000, comments |-> 0, shares |-> 0]
      m == IF id = 12 THEN mid ELSE IF id = 13 THEN weak
           ELSE IF id = 14 THEN dud ELSE IF id = 16 THEN hit ELSE strong
  IN  [id |-> id, views |-> m.views, likes |-> m.likes, comments |-> m.comments,
       shares |-> m.shares,
       create_time |-> IF id = 11 THEN [kind |-> "garbage", age |-> 0]
                       ELSE [kind |-> "unix",
                             age |-> IF id = 9 THEN 20 ELSE IF id = 10 THEN 40 ELSE 3],
       cover |-> IF id \in {4, 12, 16} THEN "" ELSE "url"]

\* the lists of post objects a vendor call can answer with
Fresh8 == <<1, 2, 3, 4, 5, 6, 7, 8>>
Mixed8 == <<5, 6, 7, 8, 9, 10, 11, 16>>
Weak2 == <<13, 14>>
Mid2 == <<12, 13>>
Backup1 == <<15>>

\* a reply of the vendor to one call: post objects, or an error
Posts(ids) == [err |-> "none", data |-> ids]
Failure(kind) == [err |-> kind, data |-> <<>>]

\* ------------------------------------------------- EnsembleService
\* EnsembleService._parse_timestamp: the ISO string of the Unix time, and the
\* ISO string of the current time for anything that is no timestamp.  An ISO
\* string is kept as the age in days of the instant it names.
parse_timestamp(timestamp) ==
  IF timestamp.kind = "unix"
    THEN [iso |-> TRUE, age |-> timestamp.age]
    ELSE [iso |-> TRUE, age |-> 0]

\* EnsembleService._parse_posts_data, for one post object: the TikTokPost
ParsePost(id) ==
  [id |-> id, views |-> RawPost(id).views, likes |-> RawPost(id).likes,
   comments |-> RawPost(id).comments, shares |-> RawPost(id).shares,
   create_time |-> parse_timestamp(RawPost(id).create_time),
   cover |-> RawPost(id).cover]

ParsePosts(ids) == [i \in 1..Len(ids) |-> ParsePost(ids[i])]

\* datetime.fromisoformat(post.create_time) succeeds and is not older than
\* `period` days
WithinPeriod(post, period) == post.create_time.iso /\ post.create_time.age <= period

\* EnsembleService._search_hashtag_with_cursor with max_attempts = 1: one
\* hashtag_search call, an exception of which ends the loop with no posts
search_hashtag_with_cursor(reply) ==
  IF reply.err # "none" THEN <<>> ELSE reply.data

\* EnsembleService.search_hashtag_posts(hashtag, count, period) with no
\* cursor: the posts it returns and the vendor calls it made.  script[n] is
\* the vendor's reply to the n-th call.
search_hashtag_posts(script, count, period) ==
  LET full == script[1]
      listed ==
        IF full.err # "none"
          THEN [data |-> search_hashtag_with_cursor(script[2]), calls |-> 2]
        ELSE IF full.data = <<>>
          THEN IF script[2].err # "none"
                 THEN [data |-> search_hashtag_with_cursor(script[3]), calls |-> 3]
                 ELSE [data |-> script[2].data, calls |-> 2]
        ELSE [data |-> full.data, calls |-> 1]
      posts == ParsePosts(Take(listed.data, count))
      dated == SelectSeq(posts, LAMBDA p : WithinPeriod(p, period))
      over10 == SelectSeq(dated, LAMBDA p : p.views > 10)
      over0 == SelectSeq(dated, LAMBDA p : p.views > 0)
      quality == IF over10 # <<>> THEN over10
                 ELSE IF over0 # <<>> THEN over0 ELSE dated
  IN  [posts |-> Take(quality, count), calls |-> listed.calls]

\* ------------------------------------------- TrendAnalysisService: search
\* _post_to_trend_video: the TrendVideo of a post found under a hashtag;
\* relevance_score takes the model's default.  Scores are kept in hundredths.
post_to_trend_video(post, hashtag) ==
  [id |-> post.id, views |-> post.views, likes |-> post.likes,
   comments |-> post.comments, shares |-> post.shares,
   create_time |-> post.create_time, cover |-> post.cover,
   hashtag |-> hashtag, relevance_score |-> 0]

\* [self._post_to_trend_video(post, hashtag) for post in posts]
TrendVideos(posts, hashtag) ==
  [i \in 1..Len(posts) |-> post_to_trend_video(posts[i], hashtag)]

\* What one hashtag meets: the cache entry of its key (none, a stored list
\* of posts, or a value that is no list of posts) and the vendor's replies to
\* the calls made for it, in order.
Miss == [kind |-> "miss", ids |-> <<>>]
Stored(ids) == [kind |-> "stored", ids |-> ids]
Corrupt == [kind |-> "corrupt", ids |-> <<>>]
Answer(cached, script) == [cached |-> cached, script |-> script]
NoPosts == Posts(<<>>)
Script(a, b, c, d) == <<a, b, c, d>>
Steady(reply) == Script(reply, reply, reply, reply)

PrimaryAnswers ==
  { Answer(Miss, Steady(Posts(Fresh8))),
    Answer(Miss, Steady(Posts(Mixed8))),
    Answer(Miss, Steady(Posts(Weak2))),
    Answer(Miss, Steady(NoPosts)),
    Answer(Miss, Script(Failure("transient"), Failure("transient"),
                        Failure("transient"), Posts(Fresh8))),
    Answer(Miss, Script(Failure("notfound"), Posts(Mid2), Posts(Mid2), Posts(Mid2))),
    Answer(Miss, Script(NoPosts, Failure("ratelimit"), Posts(Mixed8), Posts(Mixed8))),
    Answer(Stored(<<1, 9>>), Steady(NoPosts)),
    Answer(Corrupt, Steady(NoPosts)) }

BackupAnswers(hashtag) ==
  IF hashtag = "fyp"
    THEN { Answer(Miss, Steady(Posts(Backup1))), Answer(Miss, Steady(NoPosts)) }
  ELSE IF hashtag = "viral"
    THEN { Answer(Miss, Steady(Posts(<<1, 15>>))),
           Answer(Miss, Steady(Failure("forbidden"))) }
  ELSE { Answer(Miss, Steady(NoPosts)) }

\* One iteration of the loop of _search_trending_videos_optimized: the path
\* it takes, the videos it adds to all_trends and the vendor calls it makes.
\*   "cached"  the cache entry is used, no call
\*   "raised"  an exception reaches the except clause of the iteration
\*   "empty"   search_hashtag_posts returned nothing: continue
\*   "stale"   nothing within the 30 days: continue
\*   "found"   videos selected, stored in the cache and added
SearchIteration(answer, hashtag, videos_per_hashtag) ==
  LET count == Min(videos_per_hashtag * 2, MaxSearchCount)
      found == search_hashtag_posts(answer.script, count, SearchPeriodDays)
      filtered == SelectSeq(found.posts, LAMBDA p : WithinPeriod(p, SearchPeriodDays))
      posts == Take(filtered, count)
      quality == SelectSeq(posts, LAMBDA p : p.views > 10)
      selected == IF Len(quality) < videos_per_hashtag /\ posts # <<>>
                    THEN Take(posts, videos_per_hashtag)
                    ELSE Take(quality, videos_per_hashtag)
  IN  IF answer.cached.kind = "corrupt"
        THEN [path |-> "raised", videos |-> <<>>, calls |-> 0]
      ELSE IF answer.cached.kind = "stored"
        THEN [path |-> "cached",
              videos |-> TrendVideos(ParsePosts(answer.cached.ids), hashtag), calls |-> 0]
      ELSE IF found.posts = <<>>
        THEN [path |-> "empty", videos |-> <<>>, calls |-> found.calls]
      ELSE IF filtered = <<>>
        THEN [path |-> "stale", videos |-> <<>>, calls |-> found.calls]
      ELSE [path |-> "found", videos |-> TrendVideos(selected, hashtag), calls |-> found.calls]

\* the iteration reaches `await asyncio.sleep(settings.ensemble_request_delay)`
Sleeps(path, i, n) == path \in {"cached", "found"} /\ i < n

\* where the loop goes after an iteration whose body raised: `continue`
OnExceptionAbort(i, n) == n + 1
OnException(i, n) == i + 1

\* the list being searched, and videos_per_hashtag of the call
Tags == IF stage = "backup" THEN BackupHashtags ELSE hashtags
PerHashtag ==
  IF stage = "backup"
    THEN Max(1, (TargetVideoCount - Len(trends)) \div Len(BackupHashtags))
    ELSE VideosPerHashtag
AnswersFor(hashtag) ==
  IF stage = "backup" THEN BackupAnswers(hashtag) ELSE PrimaryAnswers

\* the seconds since the last vendor call of this search, capped at the
\* delay (-1: no call yet), after an iteration
Elapsed(since, calls, slept) ==
  LET after == IF calls > 0 THEN 0 ELSE since
  IN  IF after < 0 THEN after
      ELSE IF slept THEN RequestDelay ELSE after

\* for hashtag i of the list being searched
SearchHashtag ==
  /\ stage \in {"primary", "backup"}
  /\ idx \in 1..Len(Tags)
  /\ \E answer \in AnswersFor(Tags[idx]) :
       LET r == SearchIteration(answer, Tags[idx], PerHashtag)
           slept == Sleeps(r.path, idx, Len(Tags))
       IN  /\ allTrends' = allTrends \o r.videos
           /\ idx' = IF r.path = "raised" THEN OnException(idx, Len(Tags)) ELSE idx + 1
           /\ visited' = visited \cup {<<stage, idx>>}
           /\ raisedAt' = IF r.path = "raised" THEN raisedAt \cup {<<stage, idx>>}
                          ELSE raisedAt
           /\ hasty' = hasty
                 \cup (IF r.calls > 0 /\ sinceCall \in 0..(RequestDelay - 1)
                         THEN {"continue"} ELSE {})
                 \cup (IF r.calls > 1 THEN {"fallback"} ELSE {})
           /\ sinceCall' = Elapsed(sinceCall, r.calls, slept)
  /\ UNCHANGED <<stage, hashtags, trends, ranked, niche, combined>>
  /\ UNCHANGED <<vars, an, vc, rt>>

\* the first occurrence of every id, in order (the seen_ids loops)
RECURSIVE Unique(_, _)
Unique(s, seen) ==
  IF s = <<>> THEN <<>>
  ELSE IF s[1].id \in seen THEN Unique(Tail(s), seen)
  ELSE <<s[1]>> \o Unique(Tail(s), seen \cup {s[1].id})

\* analyze_profile_trends, lines 87-93: the primary search has returned
PrimaryReturns ==
  /\ stage = "primary"
  /\ idx > Len(hashtags)
  /\ trends' = allTrends
  /\ IF Len(allTrends) < TargetVideoCount
       THEN /\ stage' = "backup"
            /\ idx' = 1
            /\ allTrends' = <<>>
            /\ sinceCall' = -1
       ELSE /\ stage' = "filter"
            /\ UNCHANGED <<idx, allTrends, sinceCall>>
  /\ UNCHANGED <<hashtags, ranked, niche, combined, visited, raisedAt, hasty>>
  /\ UNCHANGED <<vars, an, vc, rt>>

\* the merge of the primary and the backup videos, lines 110-120
Merge(primary, backup) == Take(Unique(primary \o backup, {}), TargetVideoCount)

\* analyze_profile_trends, lines 106-132: the backup search has returned
BackupReturns ==
  /\ stage = "backup"
  /\ idx > Len(BackupHashtags)
  /\ trends' = Merge(trends, allTrends)
  /\ stage' = IF trends' = <<>> THEN "raised" ELSE "filter"
  /\ UNCHANGED <<hashtags, idx, allTrends, ranked, niche, combined, visited,
                 raisedAt, sinceCall, hasty>>
  /\ UNCHANGED <<vars, an, vc, rt>>

\* ------------------------------------------ TrendAnalysisService: quality
\* _days_since_creation(create_time): create_time is the ISO string of the
\* model, the subtraction from a float raises TypeError, and the except clause
\* answers 1.
days_since_creation(create_time) == 1

\* (likes + comments + shares) / max(views, 1) < pct / 100
EngagementBelow(t, pct) ==
  (t.likes + t.comments + t.shares) * 100 < pct * Max(t.views, 1)

\* lines 139-157
PassesStrict(t) ==
  /\ ~EngagementBelow(t, 2)
  /\ ~(t.views < MinViews \/ t.likes < MinLikes)
  /\ ~(days_since_creation(t.create_time) > FreshnessDays)

\* lines 166-167
PassesRelaxed(t) == t.views > RelaxedViews /\ t.likes > RelaxedLikes

\* lines 139-167: quality_trends
QualityTrends(ts) ==
  LET strict == SelectSeq(ts, PassesStrict)
  IN  IF strict # <<>> THEN strict
      ELSE Take(SelectSeq(ts, PassesRelaxed), RankedMax)

\* ((likes + comments + shares) / max(views, 1)) * 50000, in tenths: the
\* floor of 500000 * sum / views, taken in steps that stay within 32 bits
EngagementBonus(t) ==
  LET v == Max(t.views, 1)
      sum == t.likes + t.comments + t.shares
      y == 500 * (sum % v)
  IN  500000 * (sum \div v) + 1000 * (y \div v) + (1000 * (y % v)) \div v

\* the sort key of lines 172-179, in tenths
Composite(t) ==
  3 * t.views + 80 * t.likes + 150 * t.comments + 200 * t.shares
    + EngagementBonus(t)

\* a sort by the same keys that puts equal keys in reverse order
SortedDescUnstable(s, keys) ==
  LET Before(i) == {j \in 1..Len(s) :
                      \/ keys[j] > keys[i]
                      \/ keys[j] = keys[i] /\ j > i}
  IN  [p \in 1..Len(s) |->
         s[CHOOSE i \in 1..Len(s) : Cardinality(Before(i)) = p - 1]]

\* sorted(s, key, reverse=True), keys[i] the key of s[i]: stable, greatest
\* key first
SortedDesc(s, keys) ==
  LET Before(i) == {j \in 1..Len(s) :
                      \/ keys[j] > keys[i]
                      \/ keys[j] = keys[i] /\ j < i}
  IN  [p \in 1..Len(s) |->
         s[CHOOSE i \in 1..Len(s) : Cardinality(Before(i)) = p - 1]]

\* lines 170-181: engagement_sorted_trends
EngagementSorted(ts) ==
  Take(SortedDesc(ts, [i \in 1..Len(ts) |-> Composite(ts[i])]), RankedMax)

\* analyze_profile_trends, lines 134-181
FilterAndRank ==
  /\ stage = "filter"
  /\ ranked' = EngagementSorted(QualityTrends(trends))
  /\ stage' = "relevance"
  /\ UNCHANGED <<hashtags, idx, allTrends, trends, niche, combined, visited,
                 raisedAt, sinceCall, hasty>>
  /\ UNCHANGED <<vars, an, vc, rt>>

\* --------------------------------------------- ContentRelevanceService
\* What the relevance analysis meets for a video: the entry of its key in the
\* relevance cache (none, a stored analysis with its score, in hundredths),
\* whether its cover image downloads, and how many words of the niche and how
\* many key topics its caption and hashtag contain.
CachedAnalysis(id) ==
  IF id = 2 THEN [kind |-> "stored", relevance_score |-> 80]
  ELSE IF id = 3 THEN [kind |-> "stored", relevance_score |-> 150]
  ELSE [kind |-> "miss", relevance_score |-> 0]
Downloads(id) == id # 5
NicheMatches(id) == IF id = 16 THEN 2 ELSE IF id % 2 = 0 THEN 1 ELSE 0
TopicMatches(id) == IF id = 16 THEN 3 ELSE IF id % 3 = 0 THEN 1 ELSE 0

\* what the vision model answers in a run: no answer, or the text behind
\* "Relevance Score:", as [number, hundredths] or as no number
NoAnswer == [kind |-> "none", value |-> 0]
ScoreLine(value) == [kind |-> "number", value |-> value]
NoNumber == [kind |-> "text", value |-> 0]
VisionReplies == {NoAnswer, ScoreLine(90), ScoreLine(170), ScoreLine(-50), NoNumber}

\* _calculate_content_age(create_time): as _days_since_creation, the
\* subtraction raises on the ISO string and the except clause answers 1
calculate_content_age(create_time) == 1

\* _analyze_text_relevance, lines 488-573, in hundredths
QualityBonusUnclamped(t, score) ==
  IF t.likes > 50000 /\ (t.likes + t.comments + t.shares) * 100 > 4 * Max(t.views, 1)
    THEN score + 5 ELSE score
QualityBonus(t, score) ==
  IF t.likes > 50000 /\ (t.likes + t.comments + t.shares) * 100 > 4 * Max(t.views, 1)
    THEN Min(100, score + 5) ELSE score

analyze_text_relevance(t) ==
  LET niche_part == IF NicheMatches(t.id) > 0
                      THEN Min(40, NicheMatches(t.id) * 20) ELSE 0
      topic_part == IF TopicMatches(t.id) > 0
                      THEN Min(30, TopicMatches(t.id) * 10) ELSE 0
      engagement_part == IF ~EngagementBelow(t, 8) THEN 15
                         ELSE IF ~EngagementBelow(t, 5) THEN 12
                         ELSE IF ~EngagementBelow(t, 3) THEN 8
                         ELSE IF ~EngagementBelow(t, 2) THEN 5 ELSE 0
      days_old == calculate_content_age(t.create_time)
      fresh_part == IF days_old <= 3 THEN 10
                    ELSE IF days_old <= 7 THEN 7
                    ELSE IF days_old <= 14 THEN 4 ELSE 0
      viral_part == IF t.views > 2000000 THEN 5
                    ELSE IF t.views > 1000000 THEN 4
                    ELSE IF t.views > 500000 THEN 2 ELSE 0
      summed == niche_part + topic_part + engagement_part + fresh_part + viral_part
  IN  QualityBonus(t, Min(100, summed))

\* _parse_vision_response, lines 445-453 and 467-474: the relevance_score of
\* the analysis (-1: no analysis)
parse_vision_response(reply) ==
  IF reply.kind = "none" THEN -1
  ELSE IF reply.kind = "text" THEN 50
  ELSE Max(0, Min(100, reply.value))

\* ContentRelevanceAnalysis(**cached_analysis) validates 0 <= score <= 1
ValidAnalysis(a) == a.relevance_score >= 0 /\ a.relevance_score <= 100

\* _analyze_single_trend_relevance, and the branch of a trend with no cover
\* image: the relevance_score the trend gets
ScoreOf(t, reply) ==
  IF t.cover = "" THEN analyze_text_relevance(t)
  ELSE IF CachedAnalysis(t.id).kind = "stored"
    THEN IF ValidAnalysis(CachedAnalysis(t.id))
           THEN CachedAnalysis(t.id).relevance_score
           ELSE analyze_text_relevance(t)
  ELSE IF ~Downloads(t.id) THEN analyze_text_relevance(t)
  ELSE IF parse_vision_response(reply) < 0 THEN analyze_text_relevance(t)
  ELSE parse_vision_response(reply)

\* analyze_trends_relevance, lines 73-108: analyzed_trends
AnalyzedTrends(ts, reply) ==
  LET to_analyze == Take(ts, MaxImages)
      scored == [i \in 1..Len(to_analyze) |->
                   [to_analyze[i] EXCEPT !.relevance_score = ScoreOf(to_analyze[i], reply)]]
      remaining == [i \in 1..(Len(ts) - Len(to_analyze)) |->
                      [ts[MaxImages + i] EXCEPT !.relevance_score = DefaultScore]]
  IN  SortedDesc(scored, [i \in 1..Len(scored) |-> scored[i].relevance_score])
        \o remaining

\* analyze_profile_trends, lines 186-194; analyzed_trends[0] of line 111
\* raises IndexError on an empty list
AnalyzeRelevance ==
  /\ stage = "relevance"
  /\ \E reply \in VisionReplies :
       LET analyzed == AnalyzedTrends(ranked, reply)
       IN  IF analyzed = <<>>
             THEN /\ stage' = "raised"
                  /\ UNCHANGED <<ranked, niche>>
             ELSE /\ stage' = "popular"
                  /\ ranked' = analyzed
                  /\ niche' = Take(analyzed, NicheMax)
  /\ UNCHANGED <<hashtags, idx, allTrends, trends, combined, visited,
                 raisedAt, sinceCall, hasty>>
  /\ UNCHANGED <<vars, an, vc, rt>>

\* ------------------------------------ the popular supplement and the result
\* what the vendor's keyword search returns for the popular keywords
PopularReplies == {<<>>, <<1, 15>>, <<15, 12>>}

\* EnsembleService.search_popular_videos: every post object goes through
\* self._convert_to_tiktok_post, which EnsembleService does not define; the
\* AttributeError is caught per post, in the keyword loop and in the fallback,
\* and no post is ever appended
search_popular_videos(reply) == SelectSeq(ParsePosts(reply), LAMBDA p : FALSE)

\* _convert_post_to_trend
convert_post_to_trend(post) ==
  [post_to_trend_video(post, "popular") EXCEPT !.relevance_score = PopularScore]

\* lines 205-214: popular_trends
PopularTrends(posts) == [i \in 1..Len(posts) |-> convert_post_to_trend(posts[i])]

\* lines 217-231: combined_trends
RECURSIVE AddAll(_, _, _)
AddAll(acc, s, cap) ==
  IF s = <<>> THEN acc
  ELSE AddAll(IF Len(acc) < cap THEN Append(acc, s[1]) ELSE acc, Tail(s), cap)
RECURSIVE AddUnseen(_, _, _)
AddUnseen(acc, s, cap) ==
  IF s = <<>> THEN acc
  ELSE AddUnseen(IF s[1].id \notin {acc[i].id : i \in 1..Len(acc)} /\ Len(acc) < cap
                   THEN Append(acc, s[1]) ELSE acc,
                 Tail(s), cap)
CombineTrendsNoSeen(niche_trends, popular_trends) ==
  AddAll(AddAll(<<>>, niche_trends, NicheMax), popular_trends, CombinedMax)
\* a combination that takes the popular trends first
CombineTrendsPopularFirst(niche_trends, popular_trends) ==
  AddUnseen(AddUnseen(<<>>, popular_trends, CombinedMax), niche_trends, CombinedMax)
CombineTrends(niche_trends, popular_trends) ==
  AddUnseen(AddUnseen(<<>>, niche_trends, NicheMax), popular_trends, CombinedMax)

\* analyze_profile_trends, lines 196-247: the popular supplement, the
\* combination, the storing of the result and the return
CombineAndReturn ==
  /\ stage = "popular"
  /\ \E reply \in PopularReplies :
       combined' = CombineTrends(niche, PopularTrends(search_popular_videos(reply)))
  /\ stage' = "returned"
  /\ UNCHANGED <<hashtags, idx, allTrends, trends, ranked, niche, visited,
                 raisedAt, sinceCall, hasty>>
  /\ UNCHANGED <<vars, an, vc, rt>>

\* the hashtags of a run: hashtag i of the run
Tag(i) == "h" \o ToString(i)
HashtagLists == {[i \in 1..n |-> Tag(i)] : n \in 1..MaxHashtags}

\* a run of the stages starts with the hashtags of step 3
InitStages ==
  /\ enabled = TRUE
  /\ RequestsParked
  /\ AnalyzeParked
  /\ VendorParked
  /\ RetryParked
  /\ stage = "primary"
  /\ hashtags \in HashtagLists
  /\ idx = 1
  /\ allTrends = <<>> /\ trends = <<>> /\ ranked = <<>> /\ niche = <<>>
  /\ combined = <<>>
  /\ visited = {} /\ raisedAt = {} /\ sinceCall = -1 /\ hasty = {}

NextStages ==
  \/ SearchHashtag
  \/ PrimaryReturns
  \/ BackupReturns
  \/ FilterAndRank
  \/ AnalyzeRelevance
  \/ CombineAndReturn

allVars == <<vars, aside>>
SpecStages == InitStages /\ [][NextStages]_allVars

Trend ==
  [id : VideoIds, views : Nat, likes : Nat, comments : Nat, shares : Nat,
   create_time : [iso : BOOLEAN, age : Nat], cover : {"", "url"},
   hashtag : STRING, relevance_score : Int]
IsTrends(s) == \A i \in 1..Len(s) : s[i] \in Trend
TypeOKStages ==
  /\ stage \in {"primary", "backup", "filter", "relevance", "popular",
                "returned", "raised"}
  /\ hashtags \in HashtagLists
  /\ idx \in 1..(Len(BackupHashtags) + 1)
  /\ IsTrends(allTrends) /\ IsTrends(trends) /\ IsTrends(ranked)
  /\ IsTrends(niche) /\ IsTrends(combined)
  /\ visited \subseteq ({"primary", "backup"} \X (1..Len(BackupHashtags)))
  /\ raisedAt \subseteq visited
  /\ sinceCall \in -1..RequestDelay
  /\ hasty \subseteq {"continue", "fallback"}

\* ====================================================================
\* Properties of the stages
\* ====================================================================

\* the popular trends a vendor reply would give if its posts were converted
PopularLists == {PopularTrends(ParsePosts(reply)) : reply \in PopularReplies}

\* C11: the ids of the trends of a returned (and stored) result are pairwise
\* distinct, and so are the ids of what the combination makes of the niche
\* trends with any list of popular trends.
C11_ResultIdsDistinct ==
  /\ stage = "returned" => DistinctIds(combined)
  /\ stage \in {"popular", "returned"} =>
       \A popular \in PopularLists : DistinctIds(CombineTrends(niche, popular))

\* a result is returned whose niche trends held the same video twice
C11_Witness ==
  /\ stage = "returned"
  /\ ~DistinctIds(niche)
  /\ Len(combined) < Len(niche)

\* 0.0 <= relevance_score <= 1.0, in hundredths
ScoreInBounds(t) == t.relevance_score >= 0 /\ t.relevance_score <= 100
AllInBounds(s) == \A i \in 1..Len(s) : ScoreInBounds(s[i])

\* C12: after analyze_trends_relevance every candidate's relevance_score lies
\* in [0, 1], whether it comes from the vision answer, a cached analysis, the
\* text heuristic with its quality bonus, or the 0.3 default; so do the
\* scores of the niche trends and of the result.
C12_ScoresInBounds ==
  stage \in {"popular", "returned"} =>
    AllInBounds(ranked) /\ AllInBounds(niche) /\ AllInBounds(combined)

\* more candidates than are analysed, among them one scored by the text
\* heuristic at its ceiling with the quality bonus, one by a cached analysis,
\* one by the vision answer clamped to 0, and the last by the 0.3 default
C12_Witness ==
  /\ stage = "popular"
  /\ Len(ranked) > MaxImages
  /\ \E i \in 1..Len(ranked) : ranked[i].id = 16 /\ ranked[i].relevance_score = 100
  /\ \E i \in 1..Len(ranked) : ranked[i].id = 2 /\ ranked[i].relevance_score = 80
  /\ \E i \in 1..Len(ranked) : ranked[i].id = 7 /\ ranked[i].relevance_score = 0
  /\ ranked[Len(ranked)].relevance_score = DefaultScore

\* the run of the stages has ended, with a result or with an exception
Ended == stage \in {"returned", "raised"}
\* the search stage is over and left candidates
Searched == stage \in {"filter", "relevance", "popular", "returned"}
BackupRan == \E i \in 1..Len(BackupHashtags) : <<"backup", i>> \in visited

\* C13: if the candidates after the search stage are not empty, the quality
\* filters leave a non-empty list and the run returns a result with trends
\* instead of raising.
C13_NeverEmptyIfCandidates ==
  (Ended /\ trends # <<>>) => (stage = "returned" /\ combined # <<>>)

\* the age in days of the instant a create_time names
Age(t) == t.create_time.age

\* C14: no trend of the returned result has a create_time older than the
\* recency window of the quality filter.
C14_ResultWithinWindow ==
  stage = "returned" => \A i \in 1..Len(combined) : Age(combined[i]) <= FreshnessDays

\* the vendor's create_time of the video of a trend is no timestamp
Unparsable(t) == RawPost(t.id).create_time.kind = "garbage"

\* C15: a post whose creation timestamp cannot be parsed is in no list of
\* candidates after the recency filters, at any stage.
C15_UnparsableExcluded ==
  /\ \A i \in 1..Len(allTrends) : ~Unparsable(allTrends[i])
  /\ \A i \in 1..Len(trends) : ~Unparsable(trends[i])
  /\ \A i \in 1..Len(ranked) : ~Unparsable(ranked[i])
  /\ \A i \in 1..Len(combined) : ~Unparsable(combined[i])

\* C16: an exception in the iteration of one hashtag does not end the search:
\* when a call of _search_trending_videos_optimized has returned, every
\* hashtag of its list was searched, and what the iterations collected is what
\* the call returned.
C16_FailureIsolated ==
  /\ stage # "primary" => \A i \in 1..Len(hashtags) : <<"primary", i>> \in visited
  /\ (Searched /\ BackupRan) =>
       \A i \in 1..Len(BackupHashtags) : <<"backup", i>> \in visited
  /\ (stage = "filter" /\ ~BackupRan) => trends = allTrends

\* the second of three hashtags raised, the third was searched, and the
\* videos of the first and the third were returned
C16_Witness ==
  /\ stage = "filter"
  /\ Len(hashtags) = 3
  /\ raisedAt = {<<"primary", 2>>}
  /\ <<"primary", 3>> \in visited
  /\ {trends[i].hashtag : i \in 1..Len(trends)} = {Tag(1), Tag(3)}

\* C17: after the search stage the candidates have pairwise distinct ids and
\* are at most target_video_count; the backup hashtags are searched exactly
\* when the primary search returned fewer than that.
C17_SearchStageDedupAndCap ==
  Searched =>
    /\ DistinctIds(trends)
    /\ Len(trends) <= TargetVideoCount

\* C18: between two successive vendor search calls of a call of
\* _search_trending_videos_optimized the configured delay elapses.
C18_DelayBetweenCalls == "continue" \notin hasty

\* ====================================================================
\* EnsembleService.search_hashtag_posts, one call: the vendor's replies to
\* the calls made for the hashtag are drawn, the call is made with one of the
\* two counts _search_trending_videos_optimized asks for.
\* ====================================================================

\* the vendor calls whose replies are drawn
MaxCalls == 4

VendorReplies ==
  { Posts(Fresh8), NoPosts, Failure("transient"), Failure("ratelimit"),
    Failure("notfound"), Failure("forbidden") }
Scripts == [1..MaxCalls -> VendorReplies]

\* count=min(videos_per_hashtag * 2, 20) for the profile's hashtags and for
\* the backup hashtags
SearchCounts == {Min(VideosPerHashtag * 2, MaxSearchCount), Min(1 * 2, MaxSearchCount)}

InitVendor ==
  /\ enabled = TRUE
  /\ RequestsParked
  /\ StagesParked
  /\ AnalyzeParked
  /\ RetryParked
  /\ vc \in [step : {"ready"}, script : Scripts, count : SearchCounts]

\* await self.ensemble_service.search_hashtag_posts(hashtag, count, period=30)
VendorSearch ==
  /\ vc.step = "ready"
  /\ LET found == search_hashtag_posts(vc.script, vc.count, SearchPeriodDays)
     IN  vc' = [step |-> "done", script |-> vc.script, count |-> vc.count,
                posts |-> Ids(found.posts), calls |-> found.calls]
  /\ UNCHANGED <<vars, stageVars, an, rt>>

NextVendor == VendorSearch
SpecVendor == InitVendor /\ [][NextVendor]_allVars

\* an error the caller is to retry
Retryable(reply) == reply.err \in {"transient", "ratelimit"}

\* C19: a hashtag search whose vendor calls fail with a transient or
\* rate-limit error up to three times and then succeed yields the posts.
C19_TransientRetried ==
  (/\ vc.step = "done"
   /\ \E n \in 1..3 :
        /\ \A k \in 1..n : Retryable(vc.script[k])
        /\ vc.script[n + 1] = Posts(Fresh8))
  => vc.posts # <<>>

\* ====================================================================
\* TrendAnalysisService.analyze_profile_trends, steps 1 to 3: the profile,
\* the posts, and the hashtag extraction by OpenAIService with its retries
\* and its fallback.
\* ====================================================================

\* the posts of a profile
MaxPosts == 2

\* retry_with_backoff(max_retries=3, base_delay=1.0, exponential_base=2.0)
MaxRetries == 3
BaseDelay == 1
ExponentialBase == 2
\* max_hashtags of the call in analyze_trends
MaxHashtagsArg == 5

\* the hashtags of a post, as the vendor gave them
PostHashtags == {<<>>, <<"#Cake", "baking">>, <<"ab", "cake">>,
                 <<"Content", "diy", "cake">>}
PostLists == UNION {[1..n -> PostHashtags] : n \in 0..MaxPosts}

\* hashtag.replace('#', '').lower().strip()
CleanTag(tag) ==
  CASE tag = "#Cake" -> "cake"
    [] tag = "Content" -> "content"
    [] tag = " # " -> ""
    [] OTHER -> tag
\* len(tag)
TagLength(tag) ==
  CASE tag = "ab" -> 2
    [] tag = "diy" -> 3
    [] tag = "cake" -> 4
    [] tag = "content" -> 7
    [] OTHER -> 6

\* niche_defaults
NicheDefaults == <<"contentcreator", "creative", "creator", "content", "original">>

RECURSIVE Flatten(_)
Flatten(ss) == IF ss = <<>> THEN <<>> ELSE Head(ss) \o Flatten(Tail(ss))

\* the keys of hashtag_count in insertion order
RECURSIVE FirstSeen(_, _)
FirstSeen(s, seen) ==
  IF s = <<>> THEN <<>>
  ELSE IF s[1] \in seen THEN FirstSeen(Tail(s), seen)
  ELSE <<s[1]>> \o FirstSeen(Tail(s), seen \cup {s[1]})

\* the fill loop of lines 240-245
RECURSIVE FillDefaults(_, _)
FillDefaults(final, defaults) ==
  IF defaults = <<>> \/ Len(final) >= 5 THEN final
  ELSE FillDefaults(IF \E i \in 1..Len(final) : final[i] = defaults[1]
                      THEN final ELSE Append(final, defaults[1]),
                    Tail(defaults))

\* the while loop of lines 248-250
RECURSIVE PadDefaults(_)
PadDefaults(final) ==
  IF Len(final) >= 5 THEN final
  ELSE PadDefaults(Append(final, NicheDefaults[(Len(final) % Len(NicheDefaults)) + 1]))

\* OpenAIService._generate_fallback_hashtags
generate_fallback_hashtags(posts) ==
  LET found == Flatten(posts)
      tags == SelectSeq([i \in 1..Len(found) |-> CleanTag(found[i])], LAMBDA t : t # "")
      Count(t) == Cardinality({i \in 1..Len(tags) : tags[i] = t})
      keys == FirstSeen(tags, {})
      fallback == Take(SortedDesc(keys, [i \in 1..Len(keys) |-> Count(keys[i])]), 5)
      good == SelectSeq(Take(fallback, 4),
                        LAMBDA t : TagLength(t) >= 3 /\ TagLength(t) <= 20)
      filled == IF Len(good) < 3 THEN FillDefaults(good, NicheDefaults) ELSE good
  IN  Take(PadDefaults(filled), 5)

FallbackSummary ==
  "AI analysis failed, used fallback hashtag extraction based on post content frequency"

\* GPTAnalysisResponse
GPTAnalysisResponse(top_hashtags, analysis_summary) ==
  [top_hashtags |-> top_hashtags, analysis_summary |-> analysis_summary]

\* what analyze_posts_for_hashtags returns: the tuple (analysis, token_usage)
Tuple(first, second) == [kind |-> "tuple", first |-> first, second |-> second]
NoValue == [kind |-> "none", first |-> GPTAnalysisResponse(<<>>, ""), second |-> 0]

\* what _call_gpt_analysis meets: an answer with hashtags, or an error
\* (the answer carries the top_hashtags of its JSON content)
GptOk(top_hashtags) == [err |-> "none", top_hashtags |-> top_hashtags]
GptError(text) == [err |-> text, top_hashtags |-> <<>>]
GptReplies == {GptOk(<<"baking", "desserts">>),
               GptOk(<<"#Cake", "diy", "cake">>),
               GptOk(<<"a", "b", "c", "d", "e", "f">>),
               GptOk(<<" # ">>),
               GptError("rate limit"), GptError("timeout"),
               GptError("quota"), GptError("invalid json")}

\* the cleaning loop of _call_gpt_analysis, lines 162-166
CleanHashtags(top_hashtags) ==
  LET first == Take(top_hashtags, 5)
  IN  SelectSeq([i \in 1..Len(first) |-> CleanTag(first[i])], LAMBDA t : t # "")

\* OpenAIService._call_gpt_analysis: the tuple it returns, or the text of
\* the exception it raises
call_gpt_analysis(reply) ==
  IF reply.err # "none" THEN [err |-> reply.err, value |-> NoValue]
  ELSE IF CleanHashtags(reply.top_hashtags) = <<>>
    THEN [err |-> "no valid hashtags", value |-> NoValue]
  ELSE [err |-> "none",
        value |-> Tuple(GPTAnalysisResponse(CleanHashtags(reply.top_hashtags),
                                            "summary"), 1)]

\* OpenAIService._should_retry_openai_error, on the exception
\* _call_gpt_analysis raises for the error
should_retry_openai_error(err) == err \in {"rate limit", "timeout"}

\* the delay before the next attempt of retry_with_backoff
RECURSIVE Power(_, _)
Power(b, n) == IF n = 0 THEN 1 ELSE b * Power(b, n - 1)
BackoffDelay(attempt) == BaseDelay * Power(ExponentialBase, attempt)

\* analysis.top_hashtags: a tuple has no such attribute
HasTopHashtags(value) == value.kind = "response"

Step(step, posts, attempt, slept, value, fallback, tags, error) ==
  [step |-> step, posts |-> posts, attempt |-> attempt, slept |-> slept,
   value |-> value, fallback |-> fallback, hashtags |-> tags, error |-> error]

InitAnalyze ==
  /\ enabled = TRUE
  /\ RequestsParked
  /\ StagesParked
  /\ VendorParked
  /\ RetryParked
  /\ an = Step("profile", <<>>, 0, 0, NoValue, FALSE, <<>>, "")

\* the except clause of lines 249-251
AnalysisFailed(why) == [an EXCEPT !.step = "raised", !.error = why]

\* step 1, line 64
GetProfile ==
  /\ an.step = "profile"
  /\ \E ok \in BOOLEAN :
       an' = IF ok THEN [an EXCEPT !.step = "posts"]
             ELSE AnalysisFailed("profile")
  /\ UNCHANGED <<vars, stageVars, vc, rt>>

\* step 2, lines 68-71
GetPosts ==
  /\ an.step = "posts"
  /\ \E posts \in PostLists :
       an' = IF posts = <<>> THEN AnalysisFailed("No posts found")
             ELSE [an EXCEPT !.step = "classify", !.posts = posts]
  /\ UNCHANGED <<vars, stageVars, vc, rt>>

\* analyze_posts_for_hashtags: one attempt of retry_with_backoff on
\* _call_gpt_analysis; when the retries end with an exception, the fallback
ClassifierAttempt ==
  /\ an.step = "classify"
  /\ \E reply \in GptReplies :
       LET fallback == Tuple(GPTAnalysisResponse(generate_fallback_hashtags(an.posts),
                                                 FallbackSummary), 0)
           result == call_gpt_analysis(reply)
       IN  an' =
             IF result.err = "none"
               THEN [an EXCEPT !.step = "extract", !.value = result.value]
             ELSE IF should_retry_openai_error(result.err) /\ an.attempt < MaxRetries
               THEN [an EXCEPT !.attempt = an.attempt + 1,
                               !.slept = an.slept + BackoffDelay(an.attempt)]
             ELSE [an EXCEPT !.step = "extract", !.value = fallback, !.fallback = TRUE]
  /\ UNCHANGED <<vars, stageVars, vc, rt>>

\* step 3, lines 78-81: hashtags = analysis.top_hashtags[:max_hashtags]
ExtractHashtags ==
  /\ an.step = "extract"
  /\ an' = IF ~HasTopHashtags(an.value) THEN AnalysisFailed("AttributeError")
           ELSE IF Take(an.value.first.top_hashtags, MaxHashtagsArg) = <<>>
             THEN AnalysisFailed("No hashtags extracted")
           ELSE [an EXCEPT !.step = "search",
                           !.hashtags = Take(an.value.first.top_hashtags, MaxHashtagsArg)]
  /\ UNCHANGED <<vars, stageVars, vc, rt>>

NextAnalyze ==
  \/ GetProfile
  \/ GetPosts
  \/ ClassifierAttempt
  \/ ExtractHashtags

SpecAnalyze == InitAnalyze /\ [][NextAnalyze]_allVars

\* C20: when the classifier call has failed and the fallback hashtags were
\* made, analyze_profile_trends does not end with an exception.
C20_FallbackContinues == an.step # "off" => ~(an.fallback /\ an.step = "raised")

\* the hashtag is as the cleaning leaves it: lower case, no '#', no blanks
\* around it
IsClean(tag) == CleanTag(tag) = tag

\* C21: the hashtag list analyze_posts_for_hashtags returns, from the
\* classifier or from the fallback, has at most 5 entries, each lower-cased
\* and without '#', and holds no hashtag twice.
C21_HashtagsCleanCappedDistinct ==
  an.step = "extract" =>
    LET top == an.value.first.top_hashtags
    IN  /\ Len(top) <= 5
        /\ \A i \in 1..Len(top) : IsClean(top[i])
        /\ \A i, j \in 1..Len(top) : top[i] = top[j] => i = j

\* ====================================================================
\* The order of the lists the stages hand on
\* ====================================================================

\* the entries of s whose sort key is k, in the order of s
WithKey(s, k) == SelectSeq(s, LAMBDA t : Composite(t) = k)
IsPrefix(a, b) == Len(a) <= Len(b) /\ \A i \in 1..Len(a) : a[i] = b[i]

\* C22: the list of the quality ranker is in non-increasing order of the
\* composite score views*0.3 + likes*8 + comments*15 + shares*20 +
\* engagement_rate*50000, and the candidates of one score stand in the order
\* in which the filter let them through.
C22_RankedByCompositeStable ==
  stage = "relevance" =>
    /\ \A i, j \in 1..Len(ranked) :
         i < j => Composite(ranked[i]) >= Composite(ranked[j])
    /\ \A i \in 1..Len(ranked) :
         IsPrefix(WithKey(ranked, Composite(ranked[i])),
                  WithKey(QualityTrends(trends), Composite(ranked[i])))

\* the ranker has ordered candidates of different scores and two different
\* candidates of one score (one video found under two hashtags)
C22_Witness ==
  /\ stage = "relevance"
  /\ \E i, j \in 1..Len(ranked) :
       /\ i < j
       /\ Composite(ranked[i]) = Composite(ranked[j])
       /\ ranked[i] # ranked[j]
  /\ \E i, j \in 1..Len(ranked) : Composite(ranked[i]) > Composite(ranked[j])
  /\ \E i, j \in 1..Len(trends) : i < j /\ Composite(trends[i]) < Composite(trends[j])

\* C23: the list analyze_trends_relevance returns is in non-increasing order
\* of relevance_score over all its candidates, whatever the length of its
\* input.
C23_RelevanceSortedThroughout ==
  stage = "popular" =>
    \A i, j \in 1..Len(ranked) :
      i < j => ranked[i].relevance_score >= ranked[j].relevance_score

\* the place of the first trend of s with this id
FirstAt(s, id) == CHOOSE i \in 1..Len(s) :
                    s[i].id = id /\ \A j \in 1..(i - 1) : s[j].id # id

\* c is the niche trends, each id once and in their order, followed by
\* popular trends whose ids the niche trends do not hold, 20 at most
NicheThenPopular(c, niche_trends, popular_trends) ==
  LET nicheIds == {niche_trends[i].id : i \in 1..Len(niche_trends)}
      k == Cardinality(nicheIds)
  IN  /\ Len(c) <= CombinedMax
      /\ Len(c) >= k
      /\ \A i \in 1..k :
           /\ c[i].id \in nicheIds
           /\ c[i] = niche_trends[FirstAt(niche_trends, c[i].id)]
           /\ \A j \in 1..k :
                i < j => FirstAt(niche_trends, c[i].id) < FirstAt(niche_trends, c[j].id)
      /\ \A i \in (k + 1)..Len(c) :
           /\ c[i].id \notin nicheIds
           /\ \E p \in 1..Len(popular_trends) : c[i] = popular_trends[p]

\* C24: the trends of the result are the top niche candidates in their
\* ranked order followed by popular candidates, 20 at most, and of a niche
\* and a popular candidate with one id the niche one is kept.
C24_NicheFirstThenPopular ==
  /\ stage = "returned" =>
       /\ niche = Take(ranked, NicheMax)
       /\ \E popular \in {PopularTrends(search_popular_videos(reply)) :
                             reply \in PopularReplies} :
            NicheThenPopular(combined, niche, popular)
  /\ stage \in {"popular", "returned"} =>
       \A popular \in PopularLists :
         NicheThenPopular(CombineTrends(niche, popular), niche, popular)

\* a result is returned whose niche trends hold video 1 and not video 15:
\* of the popular videos 1 and 15 the combination drops the one and appends
\* the other
C24_Witness ==
  /\ stage = "returned"
  /\ Len(combined) > 1
  /\ \E i \in 1..Len(niche) : niche[i].id = 1
  /\ \A i \in 1..Len(niche) : niche[i].id # 15
  /\ Len(CombineTrends(niche, PopularTrends(ParsePosts(<<1, 15>>)))) = Len(combined) + 1

\* ====================================================================
\* The admission of requests, and the cache and the lock under concurrent
\* requests
\* ====================================================================

\* the requests of a user with no subscription who is no admin: the same
\* steps of analyze_trends, entered through the free-trial check and the
\* recording of the usage, with the database failing or not
NextTrial ==
  \/ \E r \in Requests, u \in Users \ PaidUsers, h \in Handles : AnalyzeStart(r, u, h)
  \/ \E r \in Requests, fault \in BOOLEAN : CheckUserCanAnalyze(r, fault)
  \/ \E r \in Requests, fault \in BOOLEAN : RecordFreeTrialUsage(r, fault)
  \/ \E r \in Requests, fault \in GetFaults : CheckCache(r, fault)
  \/ \E r \in Requests, fault \in BOOLEAN : AcquireLock(r, fault)
  \/ \E r \in Requests, fault \in GetFaults : WaitRecheck(r, fault)
  \/ \E r \in Requests, words \in PipelineErrors : PipelineRaises(r, words)
  \/ \E r \in Requests, fault \in SetFaults : PipelineReturns(r, fault)
  \/ \E r \in Requests, fault \in BOOLEAN : ReleaseLock(r, fault)
  \/ \E r \in Requests : Retire(r)
  \/ Advance

SpecTrial == Init /\ [][NextTrial]_vars

\* C25: of the requests of a user with no subscription who is no admin, the
\* free-trial check admits one per day at most, however the requests
\* interleave.
C25_OneFreeTrialPerDay ==
  faults = 0 => \A u \in Users \ PaidUsers : trialUsed[u] <= FreeTrialPerDay

\* ====================================================================
\* utils.retry_with_backoff: one call, followed attempt by attempt
\* ====================================================================

\* the greatest max_retries of a call
MaxRetriesArg == 3

\* what one call of func does: it returns, or it raises an exception with
\* this text
FuncOutcomes == {"ok", "rate limit", "timeout", "quota"}

\* retry_condition(e) of the caller, or every exception when the caller
\* gave none (line 110)
RetryCondition(given, e) == given => should_retry_openai_error(e)

\* delay = base_delay * (exponential_base ** attempt)
RetryDelay(base_delay, attempt) == base_delay * Power(ExponentialBase, attempt)

\* a loop that sleeps after the last attempt too
SleepsAfterEvery(attempt, max_retries) == attempt <= max_retries
\* if attempt < max_retries (line 114)
SleepsAfter(attempt, max_retries) == attempt < max_retries

InitRetry ==
  /\ enabled = TRUE
  /\ RequestsParked
  /\ StagesParked
  /\ AnalyzeParked
  /\ VendorParked
  /\ \E max_retries \in 0..MaxRetriesArg, base_delay \in {1, 2}, given \in BOOLEAN :
       rt = [step |-> "call", max_retries |-> max_retries,
             base_delay |-> base_delay, given |-> given, attempt |-> 0,
             outcomes |-> <<>>, naps |-> <<>>, result |-> 0, raised |-> ""]

\* one pass of the loop of lines 100-117, and the raise of line 120 when the
\* loop ends with it
RetryAttempt ==
  /\ rt.step = "call"
  /\ rt.attempt <= rt.max_retries
  /\ \E outcome \in FuncOutcomes :
       LET called == [rt EXCEPT !.outcomes = Append(@, outcome)]
           slept == IF SleepsAfter(rt.attempt, rt.max_retries)
                      THEN [called EXCEPT !.naps =
                              Append(@, RetryDelay(rt.base_delay, rt.attempt))]
                      ELSE called
       IN  rt' =
             IF outcome = "ok"
               THEN [called EXCEPT !.step = "returned", !.result = Len(called.outcomes)]
             ELSE IF ~RetryCondition(rt.given, outcome)
               THEN [called EXCEPT !.step = "raised", !.raised = outcome]
             ELSE IF rt.attempt + 1 <= rt.max_retries
               THEN [slept EXCEPT !.attempt = rt.attempt + 1]
             ELSE [slept EXCEPT !.step = "raised", !.raised = outcome]
  /\ UNCHANGED <<vars, stageVars, an, vc>>

NextRetry == RetryAttempt

\* func returns and the sleep ends, so the loop goes on
SpecRetry == InitRetry /\ [][NextRetry]_allVars /\ WF_allVars(RetryAttempt)

\* the call of retry_with_backoff is over
RetryEnded == rt.step \in {"returned", "raised"}

\* the calls of func so far
Calls == Len(rt.outcomes)

\* what holds of a call of retry_with_backoff at every moment
RetryAsDescribed ==
  rt.step # "off" =>
    /\ Calls <= rt.max_retries + 1
    /\ rt.step = "call" => Calls = rt.attempt /\ Calls <= rt.max_retries
    /\ rt.step = "returned" =>
         /\ rt.outcomes[Calls] = "ok"
         /\ rt.result = Calls
         /\ \A i \in 1..(Calls - 1) : rt.outcomes[i] # "ok"
    /\ rt.step = "raised" =>
         /\ rt.raised = rt.outcomes[Calls]
         /\ \A i \in 1..Calls : rt.outcomes[i] # "ok"
         /\ (\A i \in 1..Calls : RetryCondition(rt.given, rt.outcomes[i]))
              => Calls = rt.max_retries + 1
    /\ rt.naps = [a \in 1..(IF rt.step = "call" THEN Calls ELSE Calls - 1) |->
                    rt.base_delay * Power(ExponentialBase, a - 1)]

\* C26: retry_with_backoff calls func max_retries + 1 times at most and
\* always ends: it returns the result of the first call that succeeds, and
\* when every attempt fails with a retryable error it raises the last
\* exception; between two attempts it sleeps base_delay *
\* exponential_base^attempt, and it does not sleep after the final one.
C26_RetryBoundedAndEnds == [](RetryAsDescribed) /\ <>(RetryEnded)

\* every attempt of a call with max_retries = 3 failed with a retryable
\* error: four calls, three sleeps, the last exception raised
C26_Witness ==
  /\ rt.step = "raised"
  /\ rt.max_retries = MaxRetriesArg
  /\ Calls = MaxRetriesArg + 1
  /\ rt.given
  /\ rt.outcomes[1] = "timeout"
  /\ rt.raised = "rate limit"
  /\ Len(rt.naps) = MaxRetriesArg

\* ====================================================================
\* The analysis entry and the lock key under concurrent requests
\* ====================================================================

\* a step of request r on the way of a run that raised: the raise of
\* analyze_profile_trends, and the finally clause and the except block
\* after it
FailedRunStep(r) ==
  /\ pc[r] \in {"running", "release"}
  /\ pc'[r] # pc[r]
  /\ rq'[r].result = Nil

C28_NoRunOverCachedAnalysis ==
  [][\A r \in Requests :
       (/\ pc[r] # "running"
        /\ pc'[r] = "running"
        /\ enabled
        /\ faults' = 0)
       => ~Live(redis', CacheKey(rq[r].handle))]_vars

\* C29: a release_lock of a request whose own lock has expired does not
\* remove the lock another request has acquired on the name in the
\* meantime.
C29_ReleaseEndsOwnHoldOnly ==
  [][\A r \in Requests :
       (/\ pc[r] = "release"
        /\ pc'[r] # "release"
        /\ log[r].acq = "key"
        /\ owner[Name(r)] \notin {0, rq[r].id})
       => /\ Live(redis', LockKey(Name(r)))
          /\ owner'[Name(r)] = owner[Name(r)]]_vars

\* C30: clear_pattern deletes cached data only and never the key of a lock
\* that is held, so a second analysis of the same (user, profile) cannot
\* start because the cache was cleared during a running one.
C30_ClearKeepsHeldLocks ==
  \A n \in LockNames, pattern \in ClearPatterns :
    (/\ Live(redis, LockKey(n))
     /\ \E r \in Requests : pc[r] = "running" /\ Name(r) = n /\ owner[n] = rq[r].id)
    => Live(CacheClearPattern(enabled, redis, pattern, FALSE).store, LockKey(n))

====
